---- MODULE Spec2Model ----
(***************************************************************************)
(* The authentication flow of JWTConfig/app2.py: register, login, the      *)
(* token_required guard in front of /protected, and logout, running as     *)
(* concurrent HTTP requests against the TurnusUsers table.                 *)
(*                                                                         *)
(* A request handler that talks to the store more than once (register)     *)
(* is split at its store statements, so that requests interleave the way   *)
(* threads of the web server do.  The handlers with one store statement    *)
(* or none (login, protected, logout) are one step each.                   *)
(***************************************************************************)
EXTENDS Integers, FiniteSets, Sequences, TLC

(* ------------------------------ bounds --------------------------------- *)
MaxReq == 3
NumUsernames == 2
NumPasswords == 2
MaxSalt == 2
MaxTicks == 2

Requests == 1..MaxReq
Usernames == 1..NumUsernames
Passwords == 1..NumPasswords
Salts == 1..MaxSalt

(* -------------------------- configuration ------------------------------ *)
\* config.SECRET_KEY and config.JWT_ALGORITHM, read once at import.
SECRET_KEY == "SECRET_KEY"
JWT_ALGORITHM == "HS256"
\* a key that is not the process secret (what a forger can sign with)
OtherKey == "not-the-secret"
\* timedelta(hours=1), in seconds (the resolution of the exp claim)
TokenLifetime == 3600
\* the amounts by which the clock is observed to advance between steps
TickSteps == {1, TokenLifetime - 1}

(* ---------------------------- passwords -------------------------------- *)
\* werkzeug.security.generate_password_hash: a salted one-way digest.  The
\* digest is an ideal hash: equal exactly when salt and password are equal.
generate_password_hash(password, salt) ==
    [salt |-> salt, digest |-> <<"digest", salt, password>>]

check_password_hash(pwhash, password) ==
    pwhash.digest = <<"digest", pwhash.salt, password>>

(* ------------------------------ tokens --------------------------------- *)
\* An ideal MAC: equal exactly when algorithm, payload and key are equal.
HMAC(alg, payload, key) == <<alg, payload, key>>

jwt_encode(payload, key, alg) ==
    [kind |-> "jwt", alg |-> alg, payload |-> payload,
     sig |-> HMAC(alg, payload, key)]

\* The values request.cookies.get('token') can have that are no JWT.
NoCookie == [kind |-> "absent"]
EmptyCookie == [kind |-> "empty"]
MalformedCookie == [kind |-> "malformed"]

\* variant: a token is still good at the very second of its exp claim
jwt_expired_strict(exp, now) == exp < now

\* jwt.decode's check of the exp claim: expired from the second exp on
jwt_expired(exp, now) == exp <= now

\* variant: decode that skips the signature check
jwt_decode_unverified(token, key, alg, now) ==
    IF token.kind # "jwt"
    THEN [err |-> "DecodeError", data |-> [user_id |-> 0, exp |-> 0]]
    ELSE IF jwt_expired(token.payload.exp, now)
    THEN [err |-> "ExpiredSignatureError", data |-> [user_id |-> 0, exp |-> 0]]
    ELSE [err |-> "", data |-> token.payload]

\* jwt.decode(token, key, algorithms=[alg]) at time now: the structure, then
\* the algorithm, then the signature, then the exp claim.
jwt_decode(token, key, alg, now) ==
    IF token.kind # "jwt"
    THEN [err |-> "DecodeError", data |-> [user_id |-> 0, exp |-> 0]]
    ELSE IF token.alg # alg
    THEN [err |-> "InvalidAlgorithmError", data |-> [user_id |-> 0, exp |-> 0]]
    ELSE IF token.sig # HMAC(token.alg, token.payload, key)
    THEN [err |-> "InvalidSignatureError", data |-> [user_id |-> 0, exp |-> 0]]
    ELSE IF jwt_expired(token.payload.exp, now)
    THEN [err |-> "ExpiredSignatureError", data |-> [user_id |-> 0, exp |-> 0]]
    ELSE [err |-> "", data |-> token.payload]

\* The exceptions that are jwt.InvalidTokenError but not ExpiredSignatureError.
InvalidTokenErrors == {"DecodeError", "InvalidAlgorithmError", "InvalidSignatureError"}

(* ----------------------------- responses ------------------------------- *)
KeepCookie == [op |-> "keep"]
DeleteCookie == [op |-> "delete"]
SetCookie(value) == [op |-> "set", value |-> value]

NoResponse ==
    [status |-> 0, location |-> "", body |-> "", user_id |-> 0, set_cookie |-> KeepCookie]

Redirect(endpoint) ==
    [status |-> 302, location |-> endpoint, body |-> "", user_id |-> 0,
     set_cookie |-> KeepCookie]

TextResponse(text, status) ==
    [status |-> status, location |-> "", body |-> text, user_id |-> 0,
     set_cookie |-> KeepCookie]

\* render_template('protected.html', user_id=...)
RenderProtected(uid) ==
    [status |-> 200, location |-> "", body |-> "protected.html", user_id |-> uid,
     set_cookie |-> KeepCookie]

\* render_template('register.html') and render_template('login.html')
RenderForm(template) ==
    [status |-> 200, location |-> "", body |-> template, user_id |-> 0,
     set_cookie |-> KeepCookie]

\* an exception that leaves the handler: the framework answers 500
ServerError == TextResponse("Internal Server Error", 500)

(* ------------------------------- state --------------------------------- *)
VARIABLES
    users,      \* the committed rows of TurnusUsers
    nextId,     \* the table's AUTO_INCREMENT counter
    now,        \* the clock (datetime.utcnow()), in seconds
    ticks,      \* how often the clock has advanced
    cookie,     \* the browser's cookie 'token'
    kind,       \* per request: which handler it runs ("none": not yet sent;
                \* "register" and "login" are the POST requests)
    pc,         \* per request: where its handler stands
    form,       \* per request: request.form (username, password)
    conn,       \* per request: its store connection
    row,        \* per request: the row it holds (register: inserted and not yet
                \* committed; login: what fetchone() returned)
    guard,      \* per request: what token_required saw and decided, and the
                \* clock reading the request used (login: when it made its token)
    resp,       \* per request: the response it returned
    saw         \* per request: history (the requests done and the rows
                \* committed when it ran its SELECT)

vars == <<users, nextId, now, ticks, cookie, kind, pc, form, conn, row, guard, resp, saw>>

NoRow == [id |-> 0, username |-> 0, password |-> [salt |-> 0, digest |-> <<>>], by |-> 0]
NoForm == [username |-> 0, password |-> 0]
NoGuard == [token |-> NoCookie, decoded |-> FALSE, outcome |-> "", user_id |-> 0,
            ran |-> FALSE, at |-> 0]
NoSaw == [done |-> {}, rows |-> {}]

\* A row that may be in the table when the process starts (the table outlives
\* the process): username 1 with password 1, registered in an earlier run.
EarlierRow ==
    [id |-> 1, username |-> 1, password |-> generate_password_hash(1, 1), by |-> 0]

Init ==
    /\ users \in {{}, {EarlierRow}}
    /\ nextId = Cardinality(users) + 1
    /\ now = 0
    /\ ticks = 0
    /\ cookie = NoCookie
    /\ kind = [r \in Requests |-> "none"]
    /\ pc = [r \in Requests |-> "idle"]
    /\ form = [r \in Requests |-> NoForm]
    /\ conn = [r \in Requests |-> "none"]
    /\ row = [r \in Requests |-> NoRow]
    /\ guard = [r \in Requests |-> NoGuard]
    /\ resp = [r \in Requests |-> NoResponse]
    /\ saw = [r \in Requests |-> NoSaw]

\* Requests are sent in the order of their numbers.
CanSend(r) ==
    /\ kind[r] = "none"
    /\ \A q \in Requests : q < r => kind[q] # "none"

Done == {r \in Requests : pc[r] = "done"}

\* What the browser does with a response's Set-Cookie header.
ApplyCookie(jar, response) ==
    CASE response.set_cookie.op = "set" -> response.set_cookie.value
      [] response.set_cookie.op = "delete" -> NoCookie
      [] OTHER -> jar

\* SELECT * FROM TurnusUsers WHERE username = %s: the committed rows that match
SelectByUsername(u) == {x \in users : x.username = u}

\* Usernames and passwords are interchangeable strings, so a request uses
\* a name only when every smaller one is already in use: each run stands for
\* the runs that differ from it by renaming.
KnownUsernames == {form[q].username : q \in Requests} \cup {x.username : x \in users}
KnownPasswords ==
    {form[q].password : q \in Requests} \cup (IF EarlierRow \in users THEN {1} ELSE {})

\* The handler's bookkeeping when request r is sent as handler k with form f.
Send(r, k, f) ==
    /\ \A v \in Usernames : v < f.username => v \in KnownUsernames
    /\ \A v \in Passwords : v < f.password => v \in KnownPasswords
    /\ kind' = [kind EXCEPT ![r] = k]
    /\ form' = [form EXCEPT ![r] = f]
    /\ saw' = [saw EXCEPT ![r] = [done |-> Done, rows |-> users]]

(* ------------------------------ the forms ------------------------------ *)
\* app2.py 35-36 and 59-60: GET /register and GET /login show the form.
GetForm(r, k) ==
    /\ CanSend(r)
    /\ Send(r, k, NoForm)
    /\ resp' = [resp EXCEPT ![r] =
          RenderForm(IF k = "GET register" THEN "register.html" ELSE "login.html")]
    /\ pc' = [pc EXCEPT ![r] = "done"]
    /\ UNCHANGED <<users, nextId, now, ticks, cookie, conn, row, guard>>

(* ------------------------------ register ------------------------------- *)
\* variant: the test of the fetched row is inverted
RegisterDuplicate_Inverted(found) == found = {}

\* app2.py 44: if cursor.fetchone()
RegisterDuplicate(found) == found # {}

\* app2.py 38-47: open the connection, SELECT; a row found answers 409.
RegisterSelect(r, u, p) ==
    /\ CanSend(r)
    /\ Send(r, "register", [username |-> u, password |-> p])
    /\ IF RegisterDuplicate(SelectByUsername(u))
       THEN /\ conn' = [conn EXCEPT ![r] = "closed"]
            /\ resp' = [resp EXCEPT ![r] = TextResponse("User already exists", 409)]
            /\ pc' = [pc EXCEPT ![r] = "done"]
       ELSE /\ conn' = [conn EXCEPT ![r] = "open"]
            /\ pc' = [pc EXCEPT ![r] = "insert"]
            /\ UNCHANGED resp
    /\ UNCHANGED <<users, nextId, now, ticks, cookie, row, guard>>

\* app2.py 49-50: hash the password, INSERT (not yet committed).
NewRow(r, salt) ==
    [id |-> nextId, username |-> form[r].username,
     password |-> generate_password_hash(form[r].password, salt), by |-> r]

RegisterInsert(r, salt) ==
    /\ kind[r] = "register" /\ pc[r] = "insert"
    /\ row' = [row EXCEPT ![r] = NewRow(r, salt)]
    /\ nextId' = nextId + 1
    /\ pc' = [pc EXCEPT ![r] = "commit"]
    /\ UNCHANGED <<users, now, ticks, cookie, kind, form, conn, guard, resp, saw>>

\* variant: a store that silently drops a row whose username is taken
Committed_Unique(table, inserted) ==
    IF \E x \in table : x.username = inserted.username
    THEN table
    ELSE table \cup {inserted}

\* the table once the INSERT of line 50 is committed: the store accepts every
\* row (the source shows no unique constraint and handles no integrity error)
Committed(table, inserted) == table \cup {inserted}

\* app2.py 51-54: commit, close, redirect to login.
RegisterCommit(r) ==
    /\ kind[r] = "register" /\ pc[r] = "commit"
    /\ users' = Committed(users, row[r])
    /\ row' = [row EXCEPT ![r] = NoRow]
    /\ conn' = [conn EXCEPT ![r] = "closed"]
    /\ resp' = [resp EXCEPT ![r] = Redirect("login")]
    /\ pc' = [pc EXCEPT ![r] = "done"]
    /\ UNCHANGED <<nextId, now, ticks, cookie, kind, form, guard, saw>>

\* A store statement of register (SELECT, INSERT or commit) raises: the
\* exception leaves the handler, nothing after the statement runs.
RegisterSelectFails(r, u, p) ==
    /\ CanSend(r)
    /\ Send(r, "register", [username |-> u, password |-> p])
    /\ conn' = [conn EXCEPT ![r] = "open"]
    /\ resp' = [resp EXCEPT ![r] = ServerError]
    /\ pc' = [pc EXCEPT ![r] = "done"]
    /\ UNCHANGED <<users, nextId, now, ticks, cookie, row, guard>>

RegisterStatementFails(r) ==
    /\ kind[r] = "register" /\ pc[r] \in {"insert", "commit"}
    /\ row' = [row EXCEPT ![r] = NoRow]
    /\ resp' = [resp EXCEPT ![r] = ServerError]
    /\ pc' = [pc EXCEPT ![r] = "done"]
    /\ UNCHANGED <<users, nextId, now, ticks, cookie, kind, form, conn, guard, saw>>

(* ------------------------------- login --------------------------------- *)
\* variant: "and" in place of "or"
InvalidCredentials_And(found, user, password) ==
    found = {} /\ ~check_password_hash(user.password, password)

\* app2.py 72: the credentials are refused
InvalidCredentials(found, user, password) ==
    found = {} \/ ~check_password_hash(user.password, password)

\* variant: the token is signed with a key the guard does not check against
LoginToken_OtherKey(user, t) ==
    jwt_encode([user_id |-> user.id, exp |-> t + TokenLifetime], OtherKey, JWT_ALGORITHM)

\* app2.py 75-78: the token of a login at time t
LoginToken(user, t) ==
    jwt_encode([user_id |-> user.id, exp |-> t + TokenLifetime], SECRET_KEY, JWT_ALGORITHM)

\* app2.py 80-82
LoginResponse(token) == [Redirect("protected") EXCEPT !.set_cookie = SetCookie(token)]

\* variant: an unknown username gets an answer of its own
LoginResult_Distinguishes(found, user, password, t) ==
    IF found = {}
    THEN TextResponse("No such user", 404)
    ELSE IF InvalidCredentials(found, user, password)
    THEN TextResponse("Invalid credentials", 401)
    ELSE LoginResponse(LoginToken(user, t))

\* app2.py 72-82: what login answers once it has fetched user
LoginResult(found, user, password, t) ==
    IF InvalidCredentials(found, user, password)
    THEN TextResponse("Invalid credentials", 401)
    ELSE LoginResponse(LoginToken(user, t))

\* app2.py 62-82.  fetchone() returns one of the matching rows (the SELECT
\* has no ORDER BY), or None.
Login(r, u, p) ==
    /\ CanSend(r)
    /\ Send(r, "login", [username |-> u, password |-> p])
    /\ conn' = [conn EXCEPT ![r] = "closed"]
    /\ \E user \in (IF SelectByUsername(u) = {} THEN {NoRow} ELSE SelectByUsername(u)) :
         /\ row' = [row EXCEPT ![r] = user]
         /\ resp' = [resp EXCEPT ![r] = LoginResult(SelectByUsername(u), user, p, now)]
    /\ cookie' = ApplyCookie(cookie, resp'[r])
    /\ guard' = [guard EXCEPT ![r].at = IF resp'[r].set_cookie.op = "set" THEN now ELSE 0]
    /\ pc' = [pc EXCEPT ![r] = "done"]
    /\ UNCHANGED <<users, nextId, now, ticks>>

\* The SELECT of login raises: the connection is open, close() is not reached.
LoginSelectFails(r, u, p) ==
    /\ CanSend(r)
    /\ Send(r, "login", [username |-> u, password |-> p])
    /\ conn' = [conn EXCEPT ![r] = "open"]
    /\ resp' = [resp EXCEPT ![r] = ServerError]
    /\ pc' = [pc EXCEPT ![r] = "done"]
    /\ UNCHANGED <<users, nextId, now, ticks, cookie, row, guard>>

\* get_db_connection() itself raises (the store is unreachable): no
\* connection was acquired.
StoreUnavailable(r, k, u, p) ==
    /\ CanSend(r)
    /\ Send(r, k, [username |-> u, password |-> p])
    /\ resp' = [resp EXCEPT ![r] = ServerError]
    /\ pc' = [pc EXCEPT ![r] = "done"]
    /\ UNCHANGED <<users, nextId, now, ticks, cookie, conn, row, guard>>

(* --------------------------- token_required ---------------------------- *)
\* app2.py 16-29: what the guard decides for the cookie value token at time t.
\* "not token" holds for a missing cookie and for the empty string.  The field
\* at is the clock reading the exp check used; decode reads the clock only
\* once the signature has verified.
TokenAbsent(token) == token.kind \in {"absent", "empty"}

token_required(token, t) ==
    IF TokenAbsent(token)
    THEN [token |-> token, decoded |-> FALSE, outcome |-> "Absent", user_id |-> 0,
          ran |-> FALSE, at |-> 0]
    ELSE LET d == jwt_decode(token, SECRET_KEY, JWT_ALGORITHM, t) IN
         CASE d.err = "ExpiredSignatureError" ->
                [token |-> token, decoded |-> TRUE, outcome |-> "Expired", user_id |-> 0,
                 ran |-> FALSE, at |-> t]
           [] d.err \in InvalidTokenErrors ->
                [token |-> token, decoded |-> TRUE, outcome |-> "Invalid", user_id |-> 0,
                 ran |-> FALSE, at |-> 0]
           [] OTHER ->
                [token |-> token, decoded |-> TRUE, outcome |-> "Valid",
                 user_id |-> d.data.user_id, ran |-> TRUE, at |-> t]

\* The tokens login has handed out so far.
Issued == {resp[q].set_cookie.value : q \in {x \in Requests : resp[x].set_cookie.op = "set"}}

\* What a client can make of a token without the secret: another user_id or a
\* later expiry under the old signature, a signature under another key, or
\* the unsigned algorithm "none".
Forgeries(t) ==
    { [t EXCEPT !.payload.user_id = t.payload.user_id + 1],
      [t EXCEPT !.payload.exp = t.payload.exp + TokenLifetime],
      jwt_encode(t.payload, OtherKey, JWT_ALGORITHM),
      [t EXCEPT !.alg = "none", !.sig = <<>>] }

\* The cookie values a request to /protected can carry.
Presentable ==
    {NoCookie, EmptyCookie, MalformedCookie, cookie,
     jwt_encode([user_id |-> 1, exp |-> now + TokenLifetime], OtherKey, JWT_ALGORITHM)}
        \cup Issued \cup UNION {Forgeries(t) : t \in Issued}

(* ----------------------------- protected ------------------------------- *)
\* app2.py 85-88 behind the guard: the page, or the guard's redirect.
ProtectedResponse(g) == IF g.ran THEN RenderProtected(g.user_id) ELSE Redirect("login")

Protected(r, token) ==
    /\ CanSend(r)
    /\ Send(r, "protected", NoForm)
    /\ guard' = [guard EXCEPT ![r] = token_required(token, now)]
    /\ resp' = [resp EXCEPT ![r] = ProtectedResponse(guard'[r])]
    /\ pc' = [pc EXCEPT ![r] = "done"]
    /\ UNCHANGED <<users, nextId, now, ticks, cookie, conn, row>>

(* ------------------------------- logout -------------------------------- *)
\* app2.py 91-95
\* variant: logout that forgets delete_cookie
LogoutResponse_KeepsCookie == Redirect("login")

LogoutResponse == [Redirect("login") EXCEPT !.set_cookie = DeleteCookie]

Logout(r) ==
    /\ CanSend(r)
    /\ Send(r, "logout", NoForm)
    /\ resp' = [resp EXCEPT ![r] = LogoutResponse]
    /\ cookie' = ApplyCookie(cookie, resp'[r])
    /\ pc' = [pc EXCEPT ![r] = "done"]
    /\ UNCHANGED <<users, nextId, now, ticks, conn, row, guard>>

(* -------------------------------- clock -------------------------------- *)
Tick(d) ==
    /\ ticks < MaxTicks
    /\ now' = now + d
    /\ ticks' = ticks + 1
    /\ UNCHANGED <<users, nextId, cookie, kind, pc, form, conn, row, guard, resp, saw>>

(* ----------------------------- specification --------------------------- *)
\* The requests with a store whose statements all succeed.
Next ==
    \/ \E r \in Requests, u \in Usernames, p \in Passwords : RegisterSelect(r, u, p)
    \/ \E r \in Requests, s \in Salts : RegisterInsert(r, s)
    \/ \E r \in Requests : RegisterCommit(r)
    \/ \E r \in Requests, u \in Usernames, p \in Passwords : Login(r, u, p)
    \/ \E r \in Requests, token \in Presentable : Protected(r, token)
    \/ \E r \in Requests : Logout(r)
    \/ \E r \in Requests, k \in {"GET register", "GET login"} : GetForm(r, k)
    \/ \E d \in TickSteps : Tick(d)

Spec == Init /\ [][Next]_vars

\* The same requests with a store whose statements may raise.
StoreFault ==
    \/ \E r \in Requests, u \in Usernames, p \in Passwords : RegisterSelectFails(r, u, p)
    \/ \E r \in Requests : RegisterStatementFails(r)
    \/ \E r \in Requests, u \in Usernames, p \in Passwords : LoginSelectFails(r, u, p)
    \/ \E r \in Requests, k \in {"register", "login"}, u \in Usernames, p \in Passwords :
          StoreUnavailable(r, k, u, p)

NextFaulty == Next \/ StoreFault

SpecFaulty == Init /\ [][NextFaulty]_vars

(* ------------------------------- properties ---------------------------- *)
Finished(r, k) == kind[r] = k /\ pc[r] = "done"

\* the signature of token verifies under the process secret
Verifies(token) ==
    /\ token.kind = "jwt"
    /\ token.alg = JWT_ALGORITHM
    /\ token.sig = HMAC(token.alg, token.payload, SECRET_KEY)

\* login request l handed out a token
IssuedBy(l) == Finished(l, "login") /\ resp[l].set_cookie.op = "set"
TokenOf(l) == resp[l].set_cookie.value

\* C1: GET /protected runs the handler body, with request.user_id the token's
\* user_id, only for a cookie whose signature verifies under the secret and
\* whose expiry lies ahead; every other request (no cookie, expired, tampered,
\* malformed) is redirected to login with no body, and a missing cookie is
\* never decoded.
C1_GuardAdmitsOnlyValidTokens ==
    \A g \in Requests : Finished(g, "protected") =>
        LET t == guard[g].token IN
        /\ IF Verifies(t) /\ guard[g].at < t.payload.exp
           THEN /\ guard[g].ran
                /\ guard[g].user_id = t.payload.user_id
                /\ resp[g] = RenderProtected(t.payload.user_id)
           ELSE /\ ~guard[g].ran
                /\ resp[g] = Redirect("login")
        /\ t.kind = "absent" => ~guard[g].decoded

\* C1's case: one request admitted, another with a tampered token turned away
C1_Witness ==
    \E g, h \in Requests :
        /\ Finished(g, "protected") /\ guard[g].ran
        /\ Finished(h, "protected") /\ guard[h].token.kind = "jwt"
        /\ guard[h].outcome = "Invalid" /\ resp[h] = Redirect("login")

\* C2: POST /register for a username that already has a row answers 409
\* "User already exists" and leaves the table (every row, with its stored
\* hash) as it was.
C2_DuplicateRegisterRejected ==
    [][\A r \in Requests :
          (kind[r] = "none" /\ kind'[r] = "register"
             /\ SelectByUsername(form'[r].username) # {})
          => /\ pc'[r] = "done"
             /\ resp'[r] = TextResponse("User already exists", 409)
             /\ users' = users
             /\ row'[r] = NoRow]_vars

\* C2's case: a register refused for a username that has a row
C2_Witness ==
    \E r \in Requests :
        /\ Finished(r, "register") /\ resp[r].status = 409
        /\ \E x \in saw[r].rows : x.username = form[r].username

\* C3: a register that succeeded is followed, whatever ran in between, by a
\* successful login with the same username and password, whose token carries
\* the id of the row that register created.
C3_RegisterThenLogin ==
    \A r, l \in Requests :
        (/\ Finished(r, "register") /\ resp[r] = Redirect("login")
         /\ Finished(l, "login") /\ r \in saw[l].done
         /\ form[l] = form[r])
        => /\ resp[l].set_cookie.op = "set"
           /\ \E x \in users : x.by = r /\ x.id = TokenOf(l).payload.user_id

\* the two causes of a refused login, read off the table at the time of the SELECT
NoSuchUser(l) ==
    /\ Finished(l, "login")
    /\ \A x \in saw[l].rows : x.username # form[l].username

WrongPassword(l) ==
    /\ Finished(l, "login")
    /\ \E x \in saw[l].rows : x.username = form[l].username
    /\ \A x \in saw[l].rows :
          x.username = form[l].username => ~check_password_hash(x.password, form[l].password)

\* C4: a login with an unknown username and a login with a known username and
\* a wrong password get the same response, 401 "Invalid credentials", which
\* sets no cookie and carries no token.
C4_RefusalsAlike ==
    /\ \A l \in Requests : (NoSuchUser(l) \/ WrongPassword(l)) =>
          /\ resp[l] = TextResponse("Invalid credentials", 401)
          /\ resp[l].set_cookie = KeepCookie
    /\ \A l, m \in Requests : (NoSuchUser(l) /\ WrongPassword(m)) => resp[l] = resp[m]

\* C4's case: both causes have occurred
C4_Witness == \E l, m \in Requests : NoSuchUser(l) /\ WrongPassword(m)

\* C5: the token of a successful login, presented unchanged to the guard
\* before the hour is over, is accepted and gives request.user_id the id of
\* the user who logged in.
C5_IssueValidateRoundTrip ==
    \A l, g \in Requests :
        (/\ IssuedBy(l) /\ Finished(g, "protected")
         /\ guard[g].token = TokenOf(l)
         /\ guard[g].at < guard[l].at + TokenLifetime)
        => /\ guard[g].ran
           /\ guard[g].user_id = row[l].id
           /\ resp[g] = RenderProtected(row[l].id)

\* C5's case: a token presented in the very second it was issued
C5_Witness ==
    \E l, g \in Requests :
        /\ IssuedBy(l) /\ Finished(g, "protected")
        /\ guard[g].token = TokenOf(l) /\ guard[g].at = guard[l].at
        /\ guard[g].ran

\* C6: every token login hands out expires one hour after it was issued, and
\* a token with an intact signature presented at or after that instant is
\* Expired: the request is redirected to login.
C6_ExpiryAfterOneHour ==
    /\ \A l \in Requests : IssuedBy(l) =>
          TokenOf(l).payload.exp = guard[l].at + TokenLifetime
    /\ \A g \in Requests :
          (/\ Finished(g, "protected") /\ Verifies(guard[g].token)
           /\ guard[g].at >= guard[g].token.payload.exp)
          => /\ guard[g].outcome = "Expired"
             /\ ~guard[g].ran
             /\ resp[g] = Redirect("login")

\* C6's case: a token presented exactly at its expiry
C6_Witness ==
    \E g \in Requests :
        /\ Finished(g, "protected") /\ Verifies(guard[g].token)
        /\ guard[g].at = guard[g].token.payload.exp
        /\ guard[g].outcome = "Expired"

\* C7: logout answers with a redirect to login that deletes the cookie and
\* touches nothing on the server, and a token that was handed out is accepted
\* by the guard until it expires, whatever requests (logout among them) came
\* before.
C7_NoRevocation ==
    [][/\ \A o \in Requests :
             (kind[o] = "none" /\ kind'[o] = "logout")
             => /\ resp'[o] = [Redirect("login") EXCEPT !.set_cookie = DeleteCookie]
                /\ cookie' = NoCookie
                /\ <<users, nextId, conn, row>>' = <<users, nextId, conn, row>>
       /\ \A g \in Requests :
             (/\ kind[g] = "none" /\ kind'[g] = "protected"
              /\ guard'[g].token \in Issued
              /\ now < guard'[g].token.payload.exp)
             => /\ guard'[g].ran
                /\ resp'[g] = RenderProtected(guard'[g].token.payload.user_id)]_vars

\* C7's case: login, then logout, then the token of that login is accepted
C7_Witness ==
    \E l, o, g \in Requests :
        /\ l < o /\ o < g
        /\ IssuedBy(l) /\ Finished(o, "logout") /\ Finished(g, "protected")
        /\ cookie = NoCookie
        /\ guard[g].token = TokenOf(l) /\ guard[g].ran

\* two registers of one username that each ran its SELECT before the other
\* committed, and both answered with the redirect to login
BothPassedCheck(r, q) ==
    /\ r # q
    /\ Finished(r, "register") /\ Finished(q, "register")
    /\ form[r].username = form[q].username
    /\ \A x \in saw[r].rows \cup saw[q].rows : x.username # form[r].username
    /\ resp[r] = Redirect("login") /\ resp[q] = Redirect("login")

\* C8: when two registers of one unregistered username both run their SELECT
\* before either commits, both pass the check, both succeed, and the table
\* holds two rows with that username.
C8_CheckThenInsertRace ==
    \A r, q \in Requests : BothPassedCheck(r, q) =>
        \E x, y \in users :
            /\ x.by = r /\ y.by = q /\ x # y
            /\ x.username = form[r].username /\ y.username = form[r].username

\* C8's case: the interleaving happens and leaves two rows with one username
C8_Witness ==
    \E r, q \in Requests :
        /\ BothPassedCheck(r, q)
        /\ Cardinality({x \in users : x.username = form[r].username}) >= 2

\* C9: no register or login request ends with its store connection open.
C9_ConnectionReleased ==
    \A r \in Requests :
        (pc[r] = "done" /\ kind[r] \in {"register", "login"}) => conn[r] # "open"

\* C10: the user_id in a token login handed out is the id of a row that was
\* in the table when the token was issued, the row of the username given and
\* with a hash the password given matches.
C10_TokenNamesCheckedUser ==
    \A l \in Requests : IssuedBy(l) =>
        \E x \in saw[l].rows :
            /\ x.id = TokenOf(l).payload.user_id
            /\ x.username = form[l].username
            /\ check_password_hash(x.password, form[l].password)

\* C10's case: a token handed out for a row registered by an earlier request
C10_Witness ==
    \E l \in Requests : IssuedBy(l) /\ \E x \in saw[l].rows :
        x.id = TokenOf(l).payload.user_id /\ x.by # 0

====
